---- MODULE Spec2Model ----
(***************************************************************************)
(* A model of polk's dotfile synchronisation engine: the feature filter    *)
(* (src/src/feature.rs), the symlink projector (src/src/symlink.rs) and    *)
(* the user cache with its backup wrapper (src/src/cache.rs), driven by    *)
(* the sub-commands of src/src/main.rs.                                    *)
(*                                                                         *)
(* A file name is a TLA+ string in the state; every function that the      *)
(* code computes on the characters of a name (split, replace) is computed  *)
(* here on the name's character sequence, Chars[name].                     *)
(***************************************************************************)
EXTENDS Integers, Sequences, FiniteSets, TLC

(***************************************************************************)
(* Bounds of the model.                                                    *)
(***************************************************************************)
\* how many abandoned backups of a dotfiles directory one user may pile up
MaxBackups == 1
\* how many work-tree files a failing clone may have written
MaxPartial == 0

(***************************************************************************)
(* Strings.                                                                *)
(***************************************************************************)
Chars ==
       ".vimrc" :> <<".", "v", "i", "m", "r", "c">>
    @@ ".bashrc" :> <<".", "b", "a", "s", "h", "r", "c">>
    @@ ".gitignore" :> <<".", "g", "i", "t", "i", "g", "n", "o", "r", "e">>
    @@ ".git" :> <<".", "g", "i", "t">>
    @@ "config" :> <<"c", "o", "n", "f", "i", "g">>
    @@ "sub.conf" :> <<"s", "u", "b", ".", "c", "o", "n", "f">>
    @@ "vendor" :> <<"v", "e", "n", "d", "o", "r">>
    @@ "x" :> <<"x">>
    @@ ".tmux.linux.conf" :> <<".", "t", "m", "u", "x", ".", "l", "i", "n", "u", "x", ".", "c", "o", "n", "f">>
    @@ ".tmux.windows.conf" :> <<".", "t", "m", "u", "x", ".", "w", "i", "n", "d", "o", "w", "s", ".", "c", "o", "n", "f">>
    @@ ".tmux.os.conf" :> <<".", "t", "m", "u", "x", ".", "o", "s", ".", "c", "o", "n", "f">>
    @@ ".config.linux" :> <<".", "c", "o", "n", "f", "i", "g", ".", "l", "i", "n", "u", "x">>
    @@ ".config.os" :> <<".", "c", "o", "n", "f", "i", "g", ".", "o", "s">>
    @@ "linux" :> <<"l", "i", "n", "u", "x">>
    @@ "macos" :> <<"m", "a", "c", "o", "s">>
    @@ "ios" :> <<"i", "o", "s">>
    @@ "freebsd" :> <<"f", "r", "e", "e", "b", "s", "d">>
    @@ "dragonfly" :> <<"d", "r", "a", "g", "o", "n", "f", "l", "y">>
    @@ "bitrig" :> <<"b", "i", "t", "r", "i", "g">>
    @@ "netbsd" :> <<"n", "e", "t", "b", "s", "d">>
    @@ "openbsd" :> <<"o", "p", "e", "n", "b", "s", "d">>
    @@ "solaris" :> <<"s", "o", "l", "a", "r", "i", "s">>
    @@ "android" :> <<"a", "n", "d", "r", "o", "i", "d">>
    @@ "windows" :> <<"w", "i", "n", "d", "o", "w", "s">>
    @@ "unix" :> <<"u", "n", "i", "x">>
    @@ "x86" :> <<"x", "8", "6">>
    @@ "x86_64" :> <<"x", "8", "6", "_", "6", "4">>
    @@ "arm" :> <<"a", "r", "m">>
    @@ "aarch64" :> <<"a", "a", "r", "c", "h", "6", "4">>
    @@ "mips" :> <<"m", "i", "p", "s">>
    @@ "mips64" :> <<"m", "i", "p", "s", "6", "4">>
    @@ "powerpc" :> <<"p", "o", "w", "e", "r", "p", "c">>
    @@ "powerpc64" :> <<"p", "o", "w", "e", "r", "p", "c", "6", "4">>
    @@ "s390x" :> <<"s", "3", "9", "0", "x">>
    @@ "sparc64" :> <<"s", "p", "a", "r", "c", "6", "4">>
    @@ "os" :> <<"o", "s">>
    @@ "family" :> <<"f", "a", "m", "i", "l", "y">>
    @@ "arch" :> <<"a", "r", "c", "h">>
    @@ "dotfiles" :> <<"d", "o", "t", "f", "i", "l", "e", "s">>
    @@ "7" :> <<"7">>
    @@ "42" :> <<"4", "2">>
    @@ ".dotfiles.7.backup" :> <<".", "d", "o", "t", "f", "i", "l", "e", "s", ".", "7", ".", "b", "a", "c", "k", "u", "p">>
    @@ ".dotfiles.42.backup" :> <<".", "d", "o", "t", "f", "i", "l", "e", "s", ".", "4", "2", ".", "b", "a", "c", "k", "u", "p">>
    @@ ".linuxrc" :> <<".", "l", "i", "n", "u", "x", "r", "c">>
    @@ ".macmacos" :> <<".", "m", "a", "c", "m", "a", "c", "o", "s">>
    @@ ".macos" :> <<".", "m", "a", "c", "o", "s">>
    @@ ".os" :> <<".", "o", "s">>
    @@ ".osrc" :> <<".", "o", "s", "r", "c">>
    @@ ".tmux.arch.conf" :> <<".", "t", "m", "u", "x", ".", "a", "r", "c", "h", ".", "c", "o", "n", "f">>
    @@ ".tmux.arch_64.conf" :> <<".", "t", "m", "u", "x", ".", "a", "r", "c", "h", "_", "6", "4", ".", "c", "o", "n", "f">>
    @@ ".tmux.linux.arch.conf" :> <<".", "t", "m", "u", "x", ".", "l", "i", "n", "u", "x", ".", "a", "r", "c", "h", ".", "c", "o", "n", "f">>
    @@ ".tmux.linux.family.arch.conf" :> <<".", "t", "m", "u", "x", ".", "l", "i", "n", "u", "x", ".", "f", "a", "m", "i", "l", "y", ".", "a", "r", "c", "h", ".", "c", "o", "n", "f">>
    @@ ".tmux.linux.family.x86.conf" :> <<".", "t", "m", "u", "x", ".", "l", "i", "n", "u", "x", ".", "f", "a", "m", "i", "l", "y", ".", "x", "8", "6", ".", "c", "o", "n", "f">>
    @@ ".tmux.linux.unix.arch.conf" :> <<".", "t", "m", "u", "x", ".", "l", "i", "n", "u", "x", ".", "u", "n", "i", "x", ".", "a", "r", "c", "h", ".", "c", "o", "n", "f">>
    @@ ".tmux.linux.unix.x86.conf" :> <<".", "t", "m", "u", "x", ".", "l", "i", "n", "u", "x", ".", "u", "n", "i", "x", ".", "x", "8", "6", ".", "c", "o", "n", "f">>
    @@ ".tmux.linux.x86.conf" :> <<".", "t", "m", "u", "x", ".", "l", "i", "n", "u", "x", ".", "x", "8", "6", ".", "c", "o", "n", "f">>
    @@ ".tmux.os.arch.conf" :> <<".", "t", "m", "u", "x", ".", "o", "s", ".", "a", "r", "c", "h", ".", "c", "o", "n", "f">>
    @@ ".tmux.os.family.arch.conf" :> <<".", "t", "m", "u", "x", ".", "o", "s", ".", "f", "a", "m", "i", "l", "y", ".", "a", "r", "c", "h", ".", "c", "o", "n", "f">>
    @@ ".tmux.os.family.x86.conf" :> <<".", "t", "m", "u", "x", ".", "o", "s", ".", "f", "a", "m", "i", "l", "y", ".", "x", "8", "6", ".", "c", "o", "n", "f">>
    @@ ".tmux.os.x86.conf" :> <<".", "t", "m", "u", "x", ".", "o", "s", ".", "x", "8", "6", ".", "c", "o", "n", "f">>
    @@ ".tmux.x86_64.conf" :> <<".", "t", "m", "u", "x", ".", "x", "8", "6", "_", "6", "4", ".", "c", "o", "n", "f">>
    @@ "foo.bar" :> <<"f", "o", "o", ".", "b", "a", "r">>

\* the name whose characters are cs
Str(cs) == CHOOSE n \in DOMAIN Chars : Chars[n] = cs

\* str::split('.'): the components of a character sequence between the dots
RECURSIVE SplitDot(_, _)
SplitDot(cs, cur) ==
    IF cs = <<>> THEN <<cur>>
    ELSE IF Head(cs) = "." THEN <<cur>> \o SplitDot(Tail(cs), <<>>)
    ELSE SplitDot(Tail(cs), Append(cur, Head(cs)))

\* str::replace(from, to): every non-overlapping occurrence, left to right
RECURSIVE Replace(_, _, _)
Replace(cs, from, to) ==
    IF Len(cs) < Len(from) THEN cs
    ELSE IF SubSeq(cs, 1, Len(from)) = from
         THEN to \o Replace(SubSeq(cs, Len(from) + 1, Len(cs)), from, to)
         ELSE <<Head(cs)>> \o Replace(Tail(cs), from, to)

Range(s) == {s[i] : i \in DOMAIN s}

\* every ordering of a finite set, as sequences without repetition
Orders(S) ==
    {o \in [1..Cardinality(S) -> S] : \A i, j \in 1..Cardinality(S) : o[i] = o[j] => i = j}

(***************************************************************************)
(* Paths.  A relative path is the sequence of its components.              *)
(***************************************************************************)
file_name(p) == p[Len(p)]
parent(p) == SubSeq(p, 1, Len(p) - 1)
with_file_name(p, n) == Append(parent(p), n)
IsPrefix(a, b) == Len(a) <= Len(b) /\ SubSeq(b, 1, Len(a)) = a

(***************************************************************************)
(* feature.rs                                                              *)
(***************************************************************************)
OS_NAMES == {"linux", "macos", "ios", "freebsd", "dragonfly", "bitrig", "netbsd",
             "openbsd", "solaris", "android", "windows"}
FAMILIES == {"unix", "windows"}
ARCH_NAMES == {"x86", "x86_64", "arm", "aarch64", "mips", "mips64", "powerpc",
               "powerpc64", "s390x", "sparc64"}
ALL_FEATURES == OS_NAMES \cup FAMILIES \cup ARCH_NAMES

\* std::env::consts of the machine the tool was built for
consts == [OS |-> "linux", FAMILY |-> "unix", ARCH |-> "x86_64"]

current_system == {consts.OS, consts.FAMILY, consts.ARCH}

feature_name(value) ==
    IF value \in OS_NAMES THEN "os"
    ELSE IF value \in FAMILIES THEN "family"
    ELSE "arch"

\* required_features, were it to split every component of the relative path
required_features_of_path(dotfile) ==
    {f \in ALL_FEATURES : \E n \in DOMAIN dotfile.relative_path :
        LET parts == SplitDot(Chars[dotfile.relative_path[n]], <<>>)
        IN  \E i \in DOMAIN parts : parts[i] = Chars[f]}

required_features(dotfile) ==
    LET parts == SplitDot(Chars[file_name(dotfile.relative_path)], <<>>)
    IN  {f \in ALL_FEATURES : \E i \in DOMAIN parts : parts[i] = Chars[f]}

\* supports, were it to ask is_subset where it asks is_superset
supports_subset(enabled, dotfile) == enabled \subseteq required_features(dotfile)

supports(enabled, dotfile) == required_features(dotfile) \subseteq enabled

\* validate_feature: TRUE when it returns, FALSE when it panics
validate_feature(feature) == feature \in ALL_FEATURES

\* what a call that panicked leaves instead of a value
Panic == [panic |-> TRUE]

\* new, were it to take the tokens without validating them
new_unchecked(enabled_features) == [enabled_features |-> enabled_features]

\* FeatureSet::new
new(enabled_features) ==
    IF \A feature \in enabled_features : validate_feature(feature)
    THEN [enabled_features |-> enabled_features]
    ELSE Panic

\* current_system, were it to leave the family out
current_system_without_family(c) == new({c.OS, c.ARCH})

\* FeatureSet::current_system on a machine whose std::env::consts are c
current_system_on(c) == new({c.OS, c.FAMILY, c.ARCH})

\* the loop of substitute_enabled_feature_names over the enabled features in
\* the order the hash set yields them
RECURSIVE substitute_loop(_, _)
substitute_loop(cs, order) ==
    IF order = <<>> THEN cs
    ELSE substitute_loop(Replace(cs, Chars[Head(order)], Chars[feature_name(Head(order))]),
                         Tail(order))

\* the substitution, were it to put the new file name in the place of the whole path
substitute_whole_path(order, dotfile) ==
    [dotfile EXCEPT !.relative_path =
        <<Str(substitute_loop(Chars[file_name(@)], order))>>]

substitute_enabled_feature_names(order, dotfile) ==
    [dotfile EXCEPT !.relative_path =
        with_file_name(@, Str(substitute_loop(Chars[file_name(@)], order)))]

\* the orders in which a hash set of features may yield them
FeatureOrders(enabled) == Orders(enabled)

(***************************************************************************)
(* The remote repositories a source names, and what a clone of each puts   *)
(* into the dotfiles directory: RemoteTree[src][v] is the work tree of     *)
(* revision v in checkout order (the .git directory comes on top of it).   *)
(***************************************************************************)
AllUsers == {"jenny", "sam"}
Repositories == {"dots", "feat", "nest"}

GitDir == {<<".git", "config">>}

RemoteTree ==
       "dots" :> << << <<".bashrc">>, <<".gitignore">>, <<".vimrc">> >>,
                    << <<".gitignore">>, <<".tmux.linux.conf">>,
                       <<".tmux.windows.conf">>, <<".vimrc">> >> >>
    @@ "feat" :> << << <<".tmux.linux.conf">>, <<".tmux.os.conf">>,
                       <<"vendor", ".git">>, <<"vendor", "sub.conf">> >> >>
    @@ "nest" :> << << <<".config.linux">>, <<".config.os", "x">> >> >>

Revisions(src) == DOMAIN RemoteTree[src]

(***************************************************************************)
(* The state.                                                              *)
(***************************************************************************)
VARIABLES
    home,       \* the home directory: relative path -> entry
    manifest,   \* user -> the source in <cache>/users/<user>/manifest.toml, or NoManifest
    dotdir,     \* user -> <cache>/users/<user>/dotfiles
    backups,    \* user -> number of .dotfiles.<token>.backup siblings left behind
    last,       \* the last operation run and what it returned
    bk          \* backup::path on its own: the path, the temporary path, the result

vars == <<home, manifest, dotdir, backups, last, bk>>

NoManifest == "none"
NoTarget == [u |-> "", p |-> <<>>]

\* entries of a directory, as symlink_metadata sees them
Absent == [k |-> "absent", to |-> NoTarget]
File == [k |-> "file", to |-> NoTarget]
Dir == [k |-> "dir", to |-> NoTarget]
Link(t) == [k |-> "link", to |-> t]

\* link targets: a file of a user's dotfiles directory, or something outside polk
CacheFile(u, p) == [u |-> u, p |-> p]
ForeignFile == [u |-> "/", p |-> <<"file">>]
ForeignDir == [u |-> "/", p |-> <<"dir">>]
Missing == [u |-> "/", p |-> <<"missing">>]

\* the dotfiles directory of a user
\* (rev: the revision the work tree was checked out at; head: the revision the
\* branch points at, none after a clone that failed)
NoHead == 0
NoDir == [kind |-> "absent", src |-> "", rev |-> NoHead, files |-> {}, head |-> NoHead]
Clone(src, v) ==
    [kind |-> "dir", src |-> src, rev |-> v,
     files |-> GitDir \cup Range(RemoteTree[src][v]), head |-> v]
\* what a clone that failed after writing the first n work-tree files left
PartialClone(src, v, n) ==
    [kind |-> "dir", src |-> "", rev |-> NoHead,
     files |-> GitDir \cup {RemoteTree[src][v][i] : i \in 1..n}, head |-> NoHead]
\* a regular file standing where a directory is expected
FileNode(content) ==
    [kind |-> "file", src |-> "", rev |-> NoHead, files |-> {<<content>>}, head |-> NoHead]

Dotfile(u, p) == [full_path |-> CacheFile(u, p), relative_path |-> p]

(***************************************************************************)
(* cache.rs: UserCache::dotfiles                                           *)
(***************************************************************************)
DOTFILE_FILE_BLACKLIST == {".gitignore", ".git"}
DIRECTORY_BLACKLIST == {".git"}

\* the components of dotfiles_path() below the home directory
dotfiles_path(u) == <<".polk", "users", u, "dotfiles">>

\* Path::exists inside a dotfiles directory: a file, or a directory above a file
tree_exists(files, q) == \E f \in files : IsPrefix(q, f)

folder_blacklisted(u, f) ==
    \E i \in DOMAIN (dotfiles_path(u) \o f) : (dotfiles_path(u) \o f)[i] \in DIRECTORY_BLACKLIST

file_blacklisted(f) == file_name(f) \in DOTFILE_FILE_BLACKLIST


\* the upward walk, were it to look into the dotfiles root as well
is_submodule_from_root(files, f) ==
    \E n \in 0..Len(f) : tree_exists(files, Append(SubSeq(f, 1, n), ".git"))

\* the upward walk from the file itself to (not including) the dotfiles root
is_submodule(files, f) ==
    \E n \in 1..Len(f) : tree_exists(files, Append(SubSeq(f, 1, n), ".git"))

dotfiles(dd, u) ==
    IF dd[u].kind # "dir" THEN {}
    ELSE {Dotfile(u, f) : f \in {g \in dd[u].files :
              /\ ~folder_blacklisted(u, g)
              /\ ~file_blacklisted(g)
              /\ ~is_submodule(dd[u].files, g)}}

(***************************************************************************)
(* The home directory.                                                     *)
(***************************************************************************)
AllDotfiles ==
    UNION {UNION {dotfiles([w \in AllUsers |-> Clone(s, v)], u) : v \in Revisions(s), u \in AllUsers} :
               s \in Repositories}

\* every path a link may be built at, with the directories above
LinkPaths ==
    {d.relative_path : d \in AllDotfiles}
    \cup {substitute_enabled_feature_names(o, d).relative_path :
              o \in FeatureOrders(current_system), d \in AllDotfiles}

\* supports and substitute_enabled_feature_names, tabulated over the dotfiles
Supported == [d \in AllDotfiles |-> supports(current_system, d)]
Substituted ==
    [order \in FeatureOrders(current_system) |->
        [d \in AllDotfiles |-> substitute_enabled_feature_names(order, d)]]

HomePaths == UNION {{SubSeq(p, 1, n) : n \in 1..Len(p)} : p \in LinkPaths}

TargetIsFile(dd, t) ==
    IF t.u = "/" THEN t = ForeignFile
    ELSE t.u \in AllUsers /\ dd[t.u].kind = "dir" /\ t.p \in dd[t.u].files
TargetIsDir(dd, t) == t = ForeignDir
TargetExists(dd, t) == TargetIsFile(dd, t) \/ TargetIsDir(dd, t)

\* Path::is_dir, following symlinks; the home directory itself is a directory
RECURSIVE is_dir(_, _, _)
is_dir(h, dd, p) ==
    IF p = <<>> THEN TRUE
    ELSE /\ p \in DOMAIN h
         /\ is_dir(h, dd, parent(p))
         /\ \/ h[p].k = "dir"
            \/ h[p].k = "link" /\ TargetIsDir(dd, h[p].to)

\* fs::symlink_metadata: the entry itself, Absent when nothing is there
symlink_metadata(h, dd, p) ==
    IF p \in DOMAIN h /\ is_dir(h, dd, parent(p)) THEN h[p] ELSE Absent

\* Path::exists, following symlinks
path_exists(h, dd, p) ==
    LET e == symlink_metadata(h, dd, p)
    IN  \/ p = <<>>
        \/ e.k \in {"file", "dir"}
        \/ e.k = "link" /\ TargetExists(dd, e.to)

\* Path::canonicalize of a link target or of a dotfile's full path
canonicalize(dd, t) == [ok |-> TargetExists(dd, t), path |-> t]

\* a Result: OK, or the chain of an Error, outermost context first
OK == <<>>
Ok(h) == [home |-> h, res |-> OK]
Err(h, e) == [home |-> h, res |-> <<e>>]
chain_err(r, context) == IF r.res = OK THEN r ELSE [r EXCEPT !.res = <<context>> \o @]

\* fs::create_dir_all
RECURSIVE create_dir_all(_, _, _)
create_dir_all(h, dd, p) ==
    IF p = <<>> \/ is_dir(h, dd, p) THEN Ok(h)
    ELSE LET up == create_dir_all(h, dd, parent(p))
         IN  IF up.res # OK THEN up
             ELSE IF ~is_dir(up.home, dd, parent(p)) THEN Err(up.home, "NotADirectory")
             ELSE IF up.home[p].k # "absent" THEN Err(up.home, "AlreadyExists")
             ELSE Ok([q \in DOMAIN h |->
                         IF q = p THEN Dir
                         ELSE IF IsPrefix(p, q) THEN Absent
                         ELSE up.home[q]])

\* std::os::unix::fs::symlink(src, dst)
symlink(h, dd, target, dst) ==
    IF ~is_dir(h, dd, parent(dst))
    THEN Err(h, IF path_exists(h, dd, parent(dst)) THEN "NotADirectory" ELSE "NotFound")
    ELSE IF h[dst].k # "absent" THEN Err(h, "AlreadyExists")
    ELSE Ok([h EXCEPT ![dst] = Link(target)])

\* fs::remove_file
remove_file(h, dd, p) ==
    IF ~is_dir(h, dd, parent(p))
    THEN Err(h, IF path_exists(h, dd, parent(p)) THEN "NotADirectory" ELSE "NotFound")
    ELSE IF h[p].k = "absent" THEN Err(h, "NotFound")
    ELSE IF h[p].k = "dir" THEN Err(h, "IsADirectory")
    ELSE Ok([h EXCEPT ![p] = Absent])

(***************************************************************************)
(* symlink.rs                                                              *)
(***************************************************************************)
path(dotfile) == dotfile.relative_path

\* build_link, were it to leave the parent directories to the caller
build_link_flat(h, dd, dotfile) ==
    symlink(h, dd, dotfile.full_path, path(dotfile))

\* lines 42-53: the parent directory, then the link
build_link(h, dd, dotfile) ==
    LET dest_path == path(dotfile)
        made == IF ~path_exists(h, dd, parent(dest_path))
                THEN create_dir_all(h, dd, parent(dest_path))
                ELSE Ok(h)
    IN  IF made.res # OK THEN made
        ELSE symlink(made.home, dd, dotfile.full_path, dest_path)

\* build, were it to replace whatever stands at the link path
build_clobbering(h, dd, dotfile) ==
    build_link(remove_file(h, dd, path(dotfile)).home, dd, dotfile)

\* build, were it to refuse a path that holds a file or a directory
build_refusing(h, dd, dotfile) ==
    IF symlink_metadata(h, dd, path(dotfile)).k \in {"file", "dir"}
    THEN Err(h, "AlreadyExists")
    ELSE build_link(h, dd, dotfile)

\* build, were it to keep the link it finds
build_keeping(h, dd, dotfile) ==
    IF path_exists(h, dd, path(dotfile)) /\ symlink_metadata(h, dd, path(dotfile)).k # "link"
    THEN Ok(h)
    ELSE build_link(h, dd, dotfile)

build(h, dd, dotfile) ==
    LET dest_path == path(dotfile)
        metadata == symlink_metadata(h, dd, dest_path)
        current == canonicalize(dd, metadata.to)
        wanted == canonicalize(dd, dotfile.full_path)
    IN  IF path_exists(h, dd, dest_path)
        THEN IF is_dir(h, dd, dest_path) THEN Ok(h)
             ELSE IF metadata.k = "link"
                  THEN IF ~current.ok \/ ~wanted.ok THEN Err(h, "NotFound")
                       ELSE IF current.path = wanted.path
                            THEN LET gone == remove_file(h, dd, dest_path)
                                 IN  IF gone.res # OK THEN gone
                                     ELSE build_link(gone.home, dd, dotfile)
                            ELSE build_link(h, dd, dotfile)
                  ELSE Ok(h)
        ELSE build_link(h, dd, dotfile)

\* destroy, were it to report a link that is already gone
destroy_strict(h, dd, dotfile) ==
    remove_file(h, dd, path(dotfile))

\* lines 57-69
destroy(h, dd, dotfile) ==
    LET gone == remove_file(h, dd, path(dotfile))
    IN  IF gone.res = <<"NotFound">> THEN Ok(h) ELSE gone

exists(h, dd, dotfile) ==
    /\ path_exists(h, dd, path(dotfile))
    /\ symlink_metadata(h, dd, path(dotfile)).k = "link"

(***************************************************************************)
(* cache.rs: link_ext and unlink.  walk is the order in which WalkDir      *)
(* yields the dotfiles, order the order in which the feature set yields    *)
(* its features.                                                           *)
(***************************************************************************)
RECURSIVE link_ext(_, _, _, _)
link_ext(h, dd, walk, order) ==
    IF walk = <<>> THEN Ok(h)
    ELSE IF Supported[Head(walk)]
         THEN LET built == build(h, dd, Substituted[order][Head(walk)])
              IN  IF built.res # OK THEN built
                  ELSE link_ext(built.home, dd, Tail(walk), order)
         ELSE link_ext(h, dd, Tail(walk), order)

\* link, were dotfiles() to walk a dotfiles directory that does not exist
link_results_unguarded(h, dd, u) ==
    IF dd[u].kind # "dir" THEN {Err(h, "NotFound")}
    ELSE {link_ext(h, dd, walk, order) :
             walk \in Orders(dotfiles(dd, u)), order \in FeatureOrders(current_system)}

\* every way one link pass may end: over the walks and the feature orders
link_results(h, dd, u) ==
    {link_ext(h, dd, walk, order) :
        walk \in Orders(dotfiles(dd, u)), order \in FeatureOrders(current_system)}


RECURSIVE unlink(_, _, _)
unlink(h, dd, walk) ==
    IF walk = <<>> THEN Ok(h)
    ELSE IF exists(h, dd, Head(walk))
         THEN LET gone == destroy(h, dd, Head(walk))
              IN  IF gone.res # OK THEN gone
                  ELSE unlink(gone.home, dd, Tail(walk))
         ELSE unlink(h, dd, Tail(walk))

\* every way one unlink pass may end
unlink_results(h, dd, u) == {unlink(h, dd, walk) : walk \in Orders(dotfiles(dd, u))}

(***************************************************************************)
(* cache.rs: mod backup.  before is what stands at the path; f, the        *)
(* closure, leaves f.written at the path and returns f.res; fault names    *)
(* the one filesystem call of the wrapper that fails, if any.              *)
(***************************************************************************)
Faults == {"none", "rename_aside", "remove_dirty", "rename_back"}

\* random_token: some of the texts two random numbers may print as
Tokens == {"7", "42"}

\* lines 315-316: parent.join(format!(".{}.{}.backup", file_name, random_token()))
temp_path(p, token) ==
    Append(parent(p), Str(<<".">> \o Chars[file_name(p)] \o <<".">> \o Chars[token]
                          \o <<".", "b", "a", "c", "k", "u", "p">>))

backup_path(before, fault) ==
    IF fault = "rename_aside"
    THEN [path |-> before, temp |-> NoDir,
          res |-> <<"failed to move file to temporary path", "io">>]
    ELSE [path |-> NoDir, temp |-> before, res |-> OK]

restore_path(dirty, temp, fault) ==
    IF dirty.kind # "absent" /\ fault = "remove_dirty"
    THEN [path |-> dirty, temp |-> temp,
          res |-> <<IF dirty.kind = "dir" THEN "could not remove dirty directory"
                    ELSE "could not remove dirty file", "io">>]
    ELSE IF fault = "rename_back"
    THEN [path |-> NoDir, temp |-> temp,
          res |-> <<"could not move backup file to original path", "io">>]
    ELSE [path |-> temp, temp |-> NoDir, res |-> OK]

\* backup::path, were it to return the error of f whatever the restore does
backup_path_fn_inner_error(before, f, fault) ==
    IF before.kind = "absent"
    THEN [path |-> f.written, temp |-> NoDir, res |-> f.res, called |-> 1,
          restore |-> "none"]
    ELSE LET aside == backup_path(before, fault)
             back == restore_path(f.written, aside.temp, fault)
         IN  IF aside.res # OK
             THEN [path |-> aside.path, temp |-> aside.temp, res |-> aside.res,
                   called |-> 0, restore |-> "none"]
             ELSE IF f.res = OK
                  THEN [path |-> f.written, temp |-> aside.temp, res |-> OK,
                        called |-> 1, restore |-> "none"]
                  ELSE [path |-> back.path, temp |-> back.temp, called |-> 1,
                        restore |-> IF back.res = OK THEN "ok" ELSE "failed",
                        res |-> f.res]

\* backup::path, were it to call f although the move aside has failed
backup_path_fn_unprotected(before, f, fault) ==
    IF before.kind = "absent"
    THEN [path |-> f.written, temp |-> NoDir, res |-> f.res, called |-> 1,
          restore |-> "none"]
    ELSE LET aside == backup_path(before, fault)
         IN  IF aside.res # OK
             THEN [path |-> f.written, temp |-> aside.temp, res |-> aside.res,
                   called |-> 1, restore |-> "none"]
             ELSE IF f.res = OK
                  THEN [path |-> f.written, temp |-> aside.temp, res |-> OK,
                        called |-> 1, restore |-> "none"]
                  ELSE LET back == restore_path(f.written, aside.temp, fault)
                       IN  [path |-> back.path, temp |-> back.temp, called |-> 1,
                            restore |-> IF back.res = OK THEN "ok" ELSE "failed",
                            res |-> IF back.res = OK THEN f.res
                                    ELSE <<"could not restore backed up file">> \o back.res]

\* backup::path, were it to delete the backup once f has succeeded
backup_path_fn_discarding(before, f, fault) ==
    IF before.kind = "absent"
    THEN [path |-> f.written, temp |-> NoDir, res |-> f.res, called |-> 1,
          restore |-> "none"]
    ELSE LET aside == backup_path(before, fault)
         IN  IF aside.res # OK
             THEN [path |-> aside.path, temp |-> aside.temp, res |-> aside.res,
                   called |-> 0, restore |-> "none"]
             ELSE IF f.res = OK
                  THEN [path |-> f.written, temp |-> NoDir, res |-> OK,
                        called |-> 1, restore |-> "none"]
                  ELSE LET back == restore_path(f.written, aside.temp, fault)
                       IN  [path |-> back.path, temp |-> back.temp, called |-> 1,
                            restore |-> IF back.res = OK THEN "ok" ELSE "failed",
                            res |-> IF back.res = OK THEN f.res
                                    ELSE <<"could not restore backed up file">> \o back.res]

\* backup::path, were it to move the path aside without asking whether it exists
backup_path_fn_always_aside(before, f, fault) ==
    IF before.kind = "absent"
    THEN [path |-> before, temp |-> NoDir, called |-> 0, restore |-> "none",
          res |-> <<"failed to move file to temporary path", "io">>]
    ELSE LET aside == backup_path(before, fault)
         IN  IF aside.res # OK
             THEN [path |-> aside.path, temp |-> aside.temp, res |-> aside.res,
                   called |-> 0, restore |-> "none"]
             ELSE IF f.res = OK
                  THEN [path |-> f.written, temp |-> aside.temp, res |-> OK,
                        called |-> 1, restore |-> "none"]
                  ELSE LET back == restore_path(f.written, aside.temp, fault)
                       IN  [path |-> back.path, temp |-> back.temp, called |-> 1,
                            restore |-> IF back.res = OK THEN "ok" ELSE "failed",
                            res |-> IF back.res = OK THEN f.res
                                    ELSE <<"could not restore backed up file">> \o back.res]

\* backup::path; "called" tells whether f ran, "restore" how the restore went
backup_path_fn(before, f, fault) ==
    IF before.kind = "absent"
    THEN [path |-> f.written, temp |-> NoDir, res |-> f.res, called |-> 1,
          restore |-> "none"]
    ELSE LET aside == backup_path(before, fault)
         IN  IF aside.res # OK
             THEN [path |-> aside.path, temp |-> aside.temp, res |-> aside.res,
                   called |-> 0, restore |-> "none"]
             ELSE IF f.res = OK
                  THEN [path |-> f.written, temp |-> aside.temp, res |-> OK,
                        called |-> 1, restore |-> "none"]
                  ELSE LET back == restore_path(f.written, aside.temp, fault)
                       IN  [path |-> back.path, temp |-> back.temp, called |-> 1,
                            restore |-> IF back.res = OK THEN "ok" ELSE "failed",
                            res |-> IF back.res = OK THEN f.res
                                    ELSE <<"could not restore backed up file">> \o back.res]

(***************************************************************************)
(* cache.rs: grab, update, forget                                          *)
(***************************************************************************)
\* what Git::setup can do at an empty destination: clone revision v, or fail
\* having written nothing or the first files of the work tree
CloneOutcomes(src) ==
    {[written |-> Clone(src, v), res |-> OK] : v \in Revisions(src)}
    \cup {[written |-> NoDir, res |-> <<"could not clone", "git">>]}
    \cup {[written |-> PartialClone(src, v, n), res |-> <<"could not clone", "git">>] :
              v \in Revisions(src), n \in 0..MaxPartial}

\* the closure of grab, were it to set the backend up without saving the manifest
grab_closure_unsaved(m, source, save_ok, clone) ==
    [manifest |-> m, written |-> clone.written, res |-> clone.res]

\* the closure of grab: save the manifest, then set the backend up
grab_closure(m, source, save_ok, clone) ==
    IF ~save_ok
    THEN [manifest |-> m, written |-> NoDir,
          res |-> <<"could not save user cache manifest", "io">>]
    ELSE [manifest |-> source, written |-> clone.written, res |-> clone.res]

grab_once(m, before, source, save_ok, clone, fault) ==
    LET f == grab_closure(m, source, save_ok, clone)
        done == backup_path_fn(before, f, fault)
    IN  [manifest |-> IF done.called = 1 THEN f.manifest ELSE m,
         dotdir |-> done.path,
         left |-> IF done.temp.kind # "absent" THEN 1 ELSE 0,
         res |-> done.res]

\* every way one grab may end
grab(m, before, source) ==
    {grab_once(m, before, source, save_ok, clone, fault) :
        save_ok \in BOOLEAN, clone \in CloneOutcomes(source), fault \in Faults}

is_grabbed(m) == m # NoManifest

Fatal == <<"exit(1)">>

\* update, were it to go to the backend without asking whether the user has grabbed
UpdateOutcomes_ungated(m, d) ==
    IF d.kind # "dir" \/ d.head = NoHead
    THEN {[dotdir |-> d, res |-> <<"could not open", "git">>]}
    ELSE IF d.head # d.rev THEN {[dotdir |-> d, res |-> Fatal]}
    ELSE {[dotdir |-> d, res |-> <<"fetch", "git">>]}
         \cup {[dotdir |-> [d EXCEPT !.head = v], res |-> OK] : v \in Revisions(d.src)}

\* Git::open and Backend::update: the branch moves to the fetched tip, the
\* work tree is not checked out
UpdateOutcomes(m, d) ==
    IF ~is_grabbed(m) THEN {[dotdir |-> d, res |-> Fatal]}
    ELSE IF d.kind # "dir" \/ d.head = NoHead
    THEN {[dotdir |-> d, res |-> <<"could not open", "git">>]}
    ELSE IF d.head # d.rev THEN {[dotdir |-> d, res |-> Fatal]}
    ELSE {[dotdir |-> d, res |-> <<"fetch", "git">>]}
         \cup {[dotdir |-> [d EXCEPT !.head = v], res |-> OK] : v \in Revisions(d.src)}

\* Cache::user_caches: the users with a directory under <cache>/users
user_caches(m, dd, b) ==
    {u \in AllUsers : m[u] # NoManifest \/ dd[u].kind # "absent" \/ b[u] > 0}

\* the loop of Cache::forget over the user caches: every way it may end
RECURSIVE forget_loop(_, _, _)
forget_loop(h, dd, users) ==
    IF users = <<>> THEN {Ok(h)}
    ELSE UNION {IF gone.res # OK THEN {chain_err(gone, "could not forget symlinks")}
                ELSE forget_loop(gone.home, dd, Tail(users)) :
                    gone \in unlink_results(h, dd, Head(users))}

(***************************************************************************)
(* The state before the first command.                                     *)
(***************************************************************************)
\* what the user may have put into the home directory
ForeignEntries == {File, Dir, Link(ForeignFile), Link(ForeignDir), Link(Missing)}

\* the home directories whose entries, all out of E, are at the paths S
Homes(S, E) ==
    {h \in {[p \in HomePaths |-> IF p \in S THEN f[p] ELSE Absent] :
                f \in [S -> E \cup {Absent}]} :
        \A p \in HomePaths : h[p].k # "absent" /\ Len(p) > 1 => h[parent(p)].k = "dir"}

\* where the user has put entries before the first command
UserSpots == {<<".vimrc">>, <<".tmux.os.conf">>}

NoDotfile == Dotfile("", <<>>)
\* the last call: what ran, for whom, on which dotfile, what stood at the
\* dotfile's link path when it began, and what it returned
Ran(op, u, dotfile, res) ==
    [op |-> op, user |-> u, dotfile |-> dotfile, was |-> Absent, res |-> res,
     found |-> FALSE, grabbed |-> FALSE]

\* a path handed to backup::path: what it held before the last call, what f
\* wrote and returned, what the call left at the path and beside it, and
\* what it returned
BkAt(node) == [phase |-> "idle", before |-> NoDir, written |-> NoDir, fres |-> OK,
               path |-> node, temp |-> NoDir, left |-> 0, res |-> OK,
               called |-> 0, restore |-> "none"]
BkIdle == BkAt(NoDir)

\* the users who run commands, and the repositories they name to grab and setup
Users == {"jenny"}
Sources == {"dots"}

Init ==
    /\ home \in Homes(UserSpots, ForeignEntries)
    /\ manifest = [u \in AllUsers |-> NoManifest]
    /\ dotdir = [u \in AllUsers |-> NoDir]
    /\ backups = [u \in AllUsers |-> 0]
    /\ last = Ran("start", "", NoDotfile, OK)
    /\ bk = BkIdle

(***************************************************************************)
(* main.rs: the sub-commands                                               *)
(***************************************************************************)
Grab(u) ==
    \E source \in Sources :
      \E g \in grab(manifest[u], dotdir[u], source) :
        /\ dotdir[u].kind = "absent" \/ backups[u] < MaxBackups
        /\ manifest' = [manifest EXCEPT ![u] = g.manifest]
        /\ dotdir' = [dotdir EXCEPT ![u] = g.dotdir]
        /\ backups' = [backups EXCEPT ![u] = @ + g.left]
        /\ last' = [Ran("grab", u, NoDotfile, g.res) EXCEPT
                        !.grabbed = is_grabbed(manifest[u])]
        /\ UNCHANGED <<home, bk>>

Setup(u) ==
    \E source \in Sources :
      \E g \in grab(manifest[u], dotdir[u], source) :
        /\ dotdir[u].kind = "absent" \/ backups[u] < MaxBackups
        /\ manifest' = [manifest EXCEPT ![u] = g.manifest]
        /\ dotdir' = [dotdir EXCEPT ![u] = g.dotdir]
        /\ backups' = [backups EXCEPT ![u] = @ + g.left]
        /\ IF g.res # OK
           THEN /\ home' = home
                /\ last' = [Ran("setup", u, NoDotfile,
                                <<"failed to grab dotfiles">> \o g.res) EXCEPT
                                !.grabbed = is_grabbed(manifest[u])]
           ELSE \E l \in link_results(home, [dotdir EXCEPT ![u] = g.dotdir], u) :
                    /\ home' = l.home
                    /\ last' = [Ran("setup", u, NoDotfile,
                                    chain_err(l, "could not build symlinks").res) EXCEPT
                                    !.grabbed = is_grabbed(manifest[u])]
        /\ UNCHANGED bk

Update(u) ==
    \E o \in UpdateOutcomes(manifest[u], dotdir[u]) :
        /\ dotdir' = [dotdir EXCEPT ![u] = o.dotdir]
        /\ last' = [Ran("update", u, NoDotfile, o.res) EXCEPT
                        !.grabbed = is_grabbed(manifest[u])]
        /\ UNCHANGED <<home, manifest, backups, bk>>

LinkCmd(u) ==
    \E l \in link_results(home, dotdir, u) :
        /\ home' = l.home
        /\ last' = Ran("link", u, NoDotfile, l.res)
        /\ UNCHANGED <<manifest, dotdir, backups, bk>>

UnlinkCmd(u) ==
    \E g \in unlink_results(home, dotdir, u) :
        /\ home' = g.home
        /\ last' = Ran("unlink", u, NoDotfile, g.res)
        /\ UNCHANGED <<manifest, dotdir, backups, bk>>

\* main.rs: unlink, then link
relink(h, dd, u) ==
    UNION {IF g.res # OK THEN {g} ELSE link_results(g.home, dd, u) :
               g \in unlink_results(h, dd, u)}

Relink(u) ==
    \E l \in relink(home, dotdir, u) :
        /\ home' = l.home
        /\ last' = Ran("relink", u, NoDotfile, l.res)
        /\ UNCHANGED <<manifest, dotdir, backups, bk>>

Forget ==
    \E users \in Orders(user_caches(manifest, dotdir, backups)) :
      \E g \in forget_loop(home, dotdir, users) :
        /\ home' = g.home
        /\ last' = Ran("forget", "", NoDotfile, g.res)
        /\ IF g.res # OK
           THEN UNCHANGED <<manifest, dotdir, backups>>
           ELSE /\ manifest' = [u \in AllUsers |-> NoManifest]
                /\ dotdir' = [u \in AllUsers |-> NoDir]
                /\ backups' = [u \in AllUsers |-> 0]
        /\ UNCHANGED bk

Next ==
    \/ \E u \in Users : Grab(u)
    \/ \E u \in Users : Setup(u)
    \/ \E u \in Users : Update(u)
    \/ \E u \in Users : LinkCmd(u)
    \/ \E u \in Users : UnlinkCmd(u)
    \/ \E u \in Users : Relink(u)
    \/ Forget

Spec == Init /\ [][Next]_vars

(***************************************************************************)
(* Linking from a grabbed state: the user has grabbed any one of the       *)
(* repositories, and then runs link, unlink and relink.                    *)
(***************************************************************************)
LinkSpots == {<<".vimrc">>, <<".tmux.os.conf">>, <<".config.os">>}

InitLink ==
    /\ home \in Homes(LinkSpots, ForeignEntries)
    /\ \E u \in Users : \E src \in Repositories : \E v \in Revisions(src) :
          /\ manifest = [w \in AllUsers |-> IF w = u THEN src ELSE NoManifest]
          /\ dotdir = [w \in AllUsers |-> IF w = u THEN Clone(src, v) ELSE NoDir]
          /\ last = Ran("grab", u, NoDotfile, OK)
    /\ backups = [u \in AllUsers |-> 0]
    /\ bk = BkIdle

NextLink ==
    \/ \E u \in Users : LinkCmd(u)
    \/ \E u \in Users : UnlinkCmd(u)
    \/ \E u \in Users : Relink(u)

SpecLink == InitLink /\ [][NextLink]_vars

(***************************************************************************)
(* symlink.rs on its own: build, destroy and exists, called for a dotfile  *)
(* of a grabbed repository on a home directory that holds user entries and *)
(* links into the cache.                                                   *)
(***************************************************************************)
SymSpots == {<<".vimrc">>, <<".config.os">>}
CacheLinks(u) == {Link(d.full_path) : d \in {e \in AllDotfiles : e.full_path.u = u}}

\* the dotfiles the callers pass: as walked, or with the features substituted
Passed(dd, u) ==
    dotfiles(dd, u)
    \cup {Substituted[order][d] : order \in FeatureOrders(current_system), d \in dotfiles(dd, u)}

InitSymlink ==
    /\ \E u \in Users : \E src \in Repositories : \E v \in Revisions(src) :
          /\ home \in Homes(SymSpots, ForeignEntries \cup CacheLinks(u))
          /\ manifest = [w \in AllUsers |-> IF w = u THEN src ELSE NoManifest]
          /\ dotdir = [w \in AllUsers |-> IF w = u THEN Clone(src, v) ELSE NoDir]
          /\ last = Ran("grab", u, NoDotfile, OK)
    /\ backups = [u \in AllUsers |-> 0]
    /\ bk = BkIdle

SymBuild(u) ==
    \E dotfile \in Passed(dotdir, u) :
        LET built == build(home, dotdir, dotfile)
        IN  /\ home' = built.home
            /\ last' = [Ran("build", u, dotfile, built.res) EXCEPT
                            !.was = symlink_metadata(home, dotdir, path(dotfile))]
            /\ UNCHANGED <<manifest, dotdir, backups, bk>>

SymDestroy(u) ==
    \E dotfile \in Passed(dotdir, u) :
        LET gone == destroy(home, dotdir, dotfile)
        IN  /\ home' = gone.home
            /\ last' = [Ran("destroy", u, dotfile, gone.res) EXCEPT
                            !.was = symlink_metadata(home, dotdir, path(dotfile))]
            /\ UNCHANGED <<manifest, dotdir, backups, bk>>

SymExists(u) ==
    \E dotfile \in Passed(dotdir, u) :
        /\ last' = [Ran("exists", u, dotfile, OK) EXCEPT
                        !.was = symlink_metadata(home, dotdir, path(dotfile)),
                        !.found = exists(home, dotdir, dotfile)]
        /\ UNCHANGED <<home, manifest, dotdir, backups, bk>>

NextSymlink ==
    \/ \E u \in Users : SymBuild(u)
    \/ \E u \in Users : SymDestroy(u)
    \/ \E u \in Users : SymExists(u)

SpecSymlink == InitSymlink /\ [][NextSymlink]_vars

(***************************************************************************)
(* backup::path on its own: called again and again on one path, with a     *)
(* closure that writes anything and succeeds or fails.                     *)
(***************************************************************************)
BkNodes == {NoDir, FileNode("old"), FileNode("new"), Clone("dots", 1), PartialClone("dots", 2, 1)}
FOutcomes == {[written |-> n, res |-> r] : n \in BkNodes, r \in {OK, <<"f failed">>}}

InitBackup ==
    /\ bk \in {BkAt(n) : n \in BkNodes}
    /\ home = [p \in HomePaths |-> Absent]
    /\ manifest = [u \in AllUsers |-> NoManifest]
    /\ dotdir = [u \in AllUsers |-> NoDir]
    /\ backups = [u \in AllUsers |-> 0]
    /\ last = Ran("start", "", NoDotfile, OK)

BackupPath ==
    \E f \in FOutcomes, fault \in Faults :
        LET done == backup_path_fn(bk.path, f, fault)
            kept == IF done.temp.kind # "absent" THEN 1 ELSE 0
        IN  /\ bk.left + kept <= MaxBackups
            /\ bk' = [phase |-> "done",
                      before |-> bk.path,
                      written |-> IF done.called = 1 THEN f.written ELSE NoDir,
                      fres |-> IF done.called = 1 THEN f.res ELSE OK,
                      path |-> done.path, temp |-> done.temp, left |-> bk.left + kept,
                      res |-> done.res, called |-> done.called, restore |-> done.restore]
            /\ UNCHANGED <<home, manifest, dotdir, backups, last>>

NextBackup == BackupPath

SpecBackup == InitBackup /\ [][NextBackup]_vars

(***************************************************************************)
(* UserCache::dotfiles over the dotfiles directories a repository may      *)
(* bring: every set of regular files among TreePaths that is a directory   *)
(* tree (no file stands above another).                                    *)
(***************************************************************************)
TreePaths ==
    {<<".vimrc">>, <<".gitignore">>, <<".git", "config">>,
     <<"vendor", ".git">>, <<"vendor", ".git", "sub.conf">>, <<"vendor", "sub.conf">>,
     <<"vendor", "deep", "x">>, <<"plain", "y">>, <<"plain", ".gitignore">>}

Trees ==
    {files \in SUBSET TreePaths :
        \A f \in files : \A g \in files : IsPrefix(f, g) => f = g}

TreeDir(files) ==
    [kind |-> "dir", src |-> "", rev |-> NoHead, files |-> files, head |-> NoHead]

InitDotfiles ==
    /\ \E u \in Users : \E files \in Trees :
          dotdir = [w \in AllUsers |-> IF w = u THEN TreeDir(files) ELSE NoDir]
    /\ home = [p \in HomePaths |-> Absent]
    /\ manifest = [u \in AllUsers |-> NoManifest]
    /\ backups = [u \in AllUsers |-> 0]
    /\ last = Ran("start", "", NoDotfile, OK)
    /\ bk = BkIdle

\* one entry of the Vec that dotfiles() returns
ListDotfiles(u) ==
    \E dotfile \in dotfiles(dotdir, u) :
        /\ last' = Ran("dotfiles", u, dotfile, OK)
        /\ UNCHANGED <<home, manifest, dotdir, backups, bk>>

NextDotfiles == \E u \in Users : ListDotfiles(u)

SpecDotfiles == InitDotfiles /\ [][NextDotfiles]_vars

(***************************************************************************)
(* feature.rs over feature sets and dotfiles.  The crate uses              *)
(* std::os::unix (symlink.rs 6, shell.rs 6), so it runs on the machines of *)
(* the unix family only; FeatureSet::new takes any set of tokens.          *)
(***************************************************************************)
Machines ==
    {[OS |-> o, FAMILY |-> "unix", ARCH |-> a] : o \in OS_NAMES \ {"windows"}, a \in ARCH_NAMES}

\* the token sets handed to FeatureSet::new, the set of the tests among them
TokenSets ==
    {{}, {"linux", "unix", "x86"}, {"x86", "x86_64"}, {"windows"}, {"linux", "riscv64"}}

FeatureNames ==
    {"foo.bar", ".vimrc", "linux", ".linuxrc", ".macmacos", ".tmux.linux.conf",
     ".tmux.linux.x86.conf", ".tmux.linux.unix.x86.conf", ".tmux.windows.conf",
     ".tmux.x86_64.conf"}

\* the dotfiles: each name at the root and in a directory named like a token
FeatureDotfiles ==
    {Dotfile(u, <<n>>) : u \in Users, n \in FeatureNames}
    \cup {Dotfile(u, <<"linux", n>>) : u \in Users, n \in FeatureNames}

NoSet == [enabled_features |-> {}, none |-> TRUE]

\* the last call: the feature set in hand, the dotfile before and after,
\* and what required_features and supports returned
FeatureRan(op, tokens, set, before, dotfile, required, found) ==
    [op |-> op, tokens |-> tokens, set |-> set, before |-> before, dotfile |-> dotfile,
     required |-> required, found |-> found]

InitFeature ==
    /\ \E d \in FeatureDotfiles : last = FeatureRan("start", {}, NoSet, d, d, {}, FALSE)
    /\ home = [p \in HomePaths |-> Absent]
    /\ manifest = [u \in AllUsers |-> NoManifest]
    /\ dotdir = [u \in AllUsers |-> NoDir]
    /\ backups = [u \in AllUsers |-> 0]
    /\ bk = BkIdle

FeatureSetNew ==
    /\ last.op = "start"
    /\ \E tokens \in TokenSets :
          last' = [last EXCEPT !.op = "new", !.tokens = tokens, !.set = new(tokens)]
    /\ UNCHANGED <<home, manifest, dotdir, backups, bk>>

CurrentSystem ==
    /\ last.op = "start"
    /\ \E c \in Machines :
          last' = [last EXCEPT !.op = "current_system",
                               !.tokens = {c.OS, c.FAMILY, c.ARCH},
                               !.set = current_system_on(c)]
    /\ UNCHANGED <<home, manifest, dotdir, backups, bk>>

HasSet == last.op # "start" /\ last.set # Panic

RequiredFeatures ==
    /\ HasSet
    /\ last' = [last EXCEPT !.op = "required_features",
                            !.before = last.dotfile,
                            !.required = required_features(last.dotfile)]
    /\ UNCHANGED <<home, manifest, dotdir, backups, bk>>

Supports ==
    /\ HasSet
    /\ last' = [last EXCEPT !.op = "supports",
                            !.before = last.dotfile,
                            !.found = supports(last.set.enabled_features, last.dotfile)]
    /\ UNCHANGED <<home, manifest, dotdir, backups, bk>>

Substitute ==
    /\ HasSet
    /\ \E order \in FeatureOrders(last.set.enabled_features) :
          last' = [last EXCEPT !.op = "substitute",
                               !.before = last.dotfile,
                               !.dotfile = substitute_enabled_feature_names(order, last.dotfile)]
    /\ UNCHANGED <<home, manifest, dotdir, backups, bk>>

NextFeature ==
    \/ FeatureSetNew
    \/ CurrentSystem
    \/ RequiredFeatures
    \/ Supports
    \/ Substitute

SpecFeature == InitFeature /\ [][NextFeature]_vars

(***************************************************************************)
(* The properties.                                                         *)
(***************************************************************************)
\* what stands at the link path of the dotfile of the last call
AtLinkPath(h) == symlink_metadata(h, dotdir, path(last.dotfile))

\* C1: no step of any command, failed or not, removes or changes a regular
\* file or a directory of the home directory: what it removes or replaces
\* there is a symbolic link.
C1_UserContentKept ==
    [][\A p \in HomePaths : home[p].k \in {"file", "dir"} => home'[p] = home[p]]_vars

\* a linking command has run in a home directory where a file or directory
\* of the user stands at the link path of a dotfile of the cache
C1_Witness ==
    /\ last.op \in {"link", "setup", "relink"}
    /\ \E d \in dotfiles(dotdir, last.user) :
          /\ Supported[d]
          /\ home[d.relative_path].k \in {"file", "dir"}

\* C2: build, called when its link path holds a regular file or a
\* directory, returns success, creates no symlink and leaves the file or
\* directory as it was.
C2_BuildSkipsFileOrDir ==
    [][(/\ last'.op = "build"
        /\ symlink_metadata(home, dotdir, path(last'.dotfile)).k \in {"file", "dir"})
       => (last'.res = OK /\ home' = home)]_vars

\* build has returned at a link path that holds a regular file
C2_Witness ==
    /\ last.op = "build"
    /\ last.res = OK
    /\ last.was.k = "file"
    /\ AtLinkPath(home) = last.was

\* C3: build, called when its link path holds a symlink that does not point
\* at the dotfile's full path, deletes that link, creates the link to the
\* full path and returns success.
C3_BuildReplacesStaleLink ==
    [][(/\ last'.op = "build"
        /\ symlink_metadata(home, dotdir, path(last'.dotfile)).k = "link"
        /\ symlink_metadata(home, dotdir, path(last'.dotfile)).to # last'.dotfile.full_path)
       => (/\ last'.res = OK
           /\ home'[path(last'.dotfile)] = Link(last'.dotfile.full_path))]_vars

\* build has failed at a link path that holds a symlink to somewhere else
C3_Witness ==
    /\ last.op = "build"
    /\ last.res # OK
    /\ last.was.k = "link"
    /\ last.was.to # last.dotfile.full_path
    /\ AtLinkPath(home) = last.was

\* the dotfiles of a user's cache that the system supports, and where the
\* link of one may be built
Eligible(dd, u) == {d \in dotfiles(dd, u) : Supported[d]}
link_paths(d) == {path(Substituted[order][d]) : order \in FeatureOrders(current_system)}
Free(h, dd, p) == symlink_metadata(h, dd, p).k = "absent"
IntoCache(e, u) == e.k = "link" /\ e.to.u = u

\* C4: from a grabbed state, link followed by unlink leaves no symlink that
\* link created in the home directory, leaves the cache as it was and
\* leaves the user grabbed.
C4_LinkThenUnlink ==
    [][(/\ last.op = "link"
        /\ last.res = OK
        /\ last'.op = "unlink")
       => (/\ \A p \in HomePaths : ~IntoCache(home'[p], last'.user)
           /\ dotdir' = dotdir
           /\ manifest' = manifest
           /\ is_grabbed(manifest'[last'.user]))]_vars

\* unlink has returned and a link into the user's cache is still there
C4_Witness ==
    /\ last.op = "unlink"
    /\ last.res = OK
    /\ \E p \in HomePaths : IntoCache(home[p], last.user)

\* C5: when f fails after writing to the path, whatever the path held
\* before the call (nothing, a file, a directory), backup::path returns with
\* the path holding what it held before: what f wrote is gone and the
\* original is back from the temporary location.
C5_FailureRestores ==
    (/\ bk.phase = "done"
     /\ bk.called = 1
     /\ bk.fres # OK
     /\ bk.written.kind # "absent")
    => (bk.path = bk.before /\ bk.temp.kind = "absent")

\* f has failed after writing to a path that held nothing before the call
C5_Witness ==
    /\ bk.phase = "done"
    /\ bk.called = 1
    /\ bk.fres # OK
    /\ bk.written.kind # "absent"
    /\ bk.before.kind = "absent"
    /\ bk.path = bk.written

\* C6: when f fails inside backup::path, the caller gets the error of f if
\* the restore succeeds, and if the restore fails the error of the restore
\* under the context "could not restore backed up file", not the error of f.
C6_ErrorSurfaced ==
    (bk.phase = "done" /\ bk.called = 1 /\ bk.fres # OK)
    => /\ bk.restore = "ok" => bk.res = bk.fres
       /\ bk.restore = "failed" =>
            /\ Head(bk.res) = "could not restore backed up file"
            /\ Tail(bk.res) \in {<<"could not remove dirty directory", "io">>,
                                 <<"could not remove dirty file", "io">>,
                                 <<"could not move backup file to original path", "io">>}
            /\ \A i \in 1..Len(bk.fres) : bk.fres[i] \notin Range(bk.res)

\* f has failed and the restore has failed after it
C6_Witness ==
    /\ bk.phase = "done"
    /\ bk.called = 1
    /\ bk.fres # OK
    /\ bk.restore = "failed"

\* C7: when a directory or a regular file of the user stands at the link
\* path of one dotfile, link skips that dotfile, links every other eligible
\* dotfile whatever the order of the walk, and returns success.
C7_ConflictDoesNotAbort ==
    [][(/\ last'.op = "link"
        /\ \E d \in Eligible(dotdir, last'.user) : \E p \in link_paths(d) :
              symlink_metadata(home, dotdir, p).k \in {"file", "dir"})
       => (/\ last'.res = OK
           /\ \A d \in Eligible(dotdir, last'.user) : \A p \in link_paths(d) :
                 \/ symlink_metadata(home, dotdir, p).k \in {"file", "dir"}
                 \/ home'[p] = Link(d.full_path))]_vars

\* link has failed in a home directory where a file or a directory of the
\* user stands at the link path of an eligible dotfile
C7_Witness ==
    /\ last.op = "link"
    /\ last.res # OK
    /\ \E d \in Eligible(dotdir, last.user) : \E p \in link_paths(d) :
          home[p].k \in {"file", "dir"}

\* C8: after a successful link from a grabbed state, every dotfile the
\* system supports whose link path was free has a symlink in the home
\* directory that resolves to its cache copy, and no symlink is created for
\* a dotfile the system does not support.
C8_LinkedWhenFree ==
    [][(last'.op = "link" /\ last'.res = OK)
       => (/\ \A d \in Eligible(dotdir, last'.user) : \A p \in link_paths(d) :
                 Free(home, dotdir, p) =>
                     home'[p] = Link(d.full_path) /\ path_exists(home', dotdir, p)
           /\ \A d \in dotfiles(dotdir, last'.user) \ Eligible(dotdir, last'.user) :
                 \A p \in HomePaths : home'[p] = Link(d.full_path) => home[p] = home'[p])]_vars

\* link has succeeded and a dotfile the system supports has no link, at a
\* link path that holds no file or link of the user
C8_Witness ==
    /\ last.op = "link"
    /\ last.res = OK
    /\ \E d \in Eligible(dotdir, last.user) : \E p \in link_paths(d) :
          /\ home[p] # Link(d.full_path)
          /\ home[p].k = "dir"
          /\ \E q \in HomePaths : parent(q) = p /\ IntoCache(home[q], last.user)

\* C9: link run again after a successful link, with the cache and the home
\* directory as they are, succeeds and leaves the symlinks and their targets
\* as they are; run after new eligible files have come into the cache, it
\* succeeds, links them, and leaves the links made before at their targets.
C9_LinkIdempotent ==
    [][(/\ last'.op = "link"
        /\ \/ last.op = "link" /\ last.res = OK
           \/ /\ last.op = "grab" /\ last.res = OK
              /\ \E p \in HomePaths : IntoCache(home[p], last'.user))
       => (/\ last'.res = OK
           /\ \A p \in HomePaths : IntoCache(home[p], last'.user) => home'[p] = home[p]
           /\ last.op = "link" => home' = home
           /\ \A d \in Eligible(dotdir, last'.user) : \A p \in link_paths(d) :
                 \/ symlink_metadata(home, dotdir, p).k \in {"file", "dir"}
                 \/ home'[p] = Link(d.full_path))]_vars

\* link has failed in a home directory that holds links into the cache
\* from a link before, and a link of the user at the link path of a dotfile
\* that has come into the cache since
C9_Witness ==
    /\ last.op = "link"
    /\ last.res # OK
    /\ \E p \in HomePaths : IntoCache(home[p], last.user)
    /\ \E d \in Eligible(dotdir, last.user) : \E p \in link_paths(d) :
          home[p].k = "link" /\ ~IntoCache(home[p], last.user)

\* C10: build, called when its link path holds a symlink that points at the
\* dotfile's full path, returns success and leaves at the link path a
\* symlink that points at the full path, however often it is called.
C10_BuildIdempotent ==
    [][(/\ last'.op = "build"
        /\ symlink_metadata(home, dotdir, path(last'.dotfile)) = Link(last'.dotfile.full_path)
        /\ canonicalize(dotdir, last'.dotfile.full_path).ok)
       => (/\ last'.res = OK
           /\ home' = home
           /\ home'[path(last'.dotfile)] = Link(last'.dotfile.full_path))]_vars

\* build has returned for a dotfile whose link stood at the link path when
\* it began, and stands there now
C10_Witness ==
    /\ last.op = "build"
    /\ last.res = OK
    /\ last.was = Link(last.dotfile.full_path)
    /\ AtLinkPath(home) = Link(last.dotfile.full_path)
    /\ canonicalize(dotdir, last.dotfile.full_path).ok

(***************************************************************************)
(* C11: symlink::build on a link path where nothing stands                 *)
(***************************************************************************)
\* the directories above p: each one absent, or a directory (or a link to one)
ParentsUsable(h, dd, p) ==
    \A n \in 1..(Len(p) - 1) :
        \/ h[SubSeq(p, 1, n)].k = "absent"
        \/ is_dir(h, dd, SubSeq(p, 1, n))

\* what C11 promises of a build: Ok, the link in place below directories,
\* nothing else touched, and exists() true of the result
BuiltFresh(h, h2, dd, dotfile, res) ==
    /\ res = OK
    /\ h2[path(dotfile)] = Link(dotfile.full_path)
    /\ is_dir(h2, dd, parent(path(dotfile)))
    /\ \A q \in DOMAIN h : ~IsPrefix(q, path(dotfile)) => h2[q] = h[q]
    /\ exists(h2, dd, dotfile)

\* C11 (as stated): whenever nothing exists at the target path, build creates
\* the missing parent directories and the symlink to the dotfile's full_path,
\* returns success, and exists(dotfile) is true afterwards.
C11_BuildCreatesLink ==
    [][(/\ last'.op = "build"
        /\ symlink_metadata(home, dotdir, path(last'.dotfile)).k = "absent")
       => BuiltFresh(home, home', dotdir', last'.dotfile, last'.res)]_vars

\* C11 (amended): whenever nothing exists at the target path and every
\* directory above it is missing or is a directory, build creates the missing
\* parent directories and the symlink to the dotfile's full_path, returns
\* success, and exists(dotfile) is true afterwards.
C11_BuildCreatesLinkBelowDirs ==
    [][(/\ last'.op = "build"
        /\ symlink_metadata(home, dotdir, path(last'.dotfile)).k = "absent"
        /\ ParentsUsable(home, dotdir, path(last'.dotfile)))
       => BuiltFresh(home, home', dotdir', last'.dotfile, last'.res)]_vars

C11_Witness ==
    /\ last.op = "build"
    /\ last.was.k = "absent"
    /\ last.res = OK
    /\ Len(path(last.dotfile)) > 1
    /\ home[parent(path(last.dotfile))] = Dir
    /\ home[path(last.dotfile)] = Link(last.dotfile.full_path)
    /\ exists(home, dotdir, last.dotfile)

(***************************************************************************)
(* C12: symlink::destroy                                                   *)
(***************************************************************************)
\* h with the entry at p taken away and nothing else changed
Without(h, p) == [h EXCEPT ![p] = Absent]

\* C12: destroy of a link removes it, returns Ok and exists() is false
\* afterwards; destroy where nothing stands (not-found) returns Ok and changes
\* nothing, so a second destroy is no error; any other error of the removal
\* (a directory at the path, a file in the place of a parent directory) comes
\* back to the caller with the home directory unchanged.
C12_DestroyRemovesLink ==
    [][last'.op = "destroy" =>
        LET p == path(last'.dotfile)
            was == symlink_metadata(home, dotdir, p)
        IN  /\ was.k = "link" =>
                  /\ last'.res = OK
                  /\ home' = Without(home, p)
            /\ (was.k = "absent" /\ ParentsUsable(home, dotdir, p)) =>
                  /\ last'.res = OK
                  /\ home' = home
            /\ was.k = "dir" =>
                  /\ last'.res = <<"IsADirectory">>
                  /\ home' = home
            /\ (path_exists(home, dotdir, parent(p)) /\ ~is_dir(home, dotdir, parent(p))) =>
                  /\ last'.res = <<"NotADirectory">>
                  /\ home' = home
            /\ last'.res = OK => ~exists(home', dotdir', last'.dotfile)
            /\ last'.res # OK => home' = home]_vars

C12_Witness ==
    /\ last.op = "destroy"
    /\ last.was.k = "link"
    /\ last.res = OK
    /\ home[path(last.dotfile)] = Absent
    /\ ~exists(home, dotdir, last.dotfile)

(***************************************************************************)
(* C13: symlink::destroy and what is not a symlink                         *)
(***************************************************************************)
\* C13: destroy never destroys a path that is not a symlink: when the target
\* path holds a regular file or a directory, destroy leaves the home
\* directory as it was.
C13_DestroySparesNonLinks ==
    [][(/\ last'.op = "destroy"
        /\ symlink_metadata(home, dotdir, path(last'.dotfile)).k \in {"file", "dir"})
       => home' = home]_vars

\* destroy has run where a regular file stood, and the file is gone
C13_Witness ==
    /\ last.op = "destroy"
    /\ last.was.k = "file"
    /\ last.res = OK
    /\ AtLinkPath(home) = Absent

(***************************************************************************)
(* C14: symlink::exists                                                    *)
(***************************************************************************)
\* C14: exists(dotfile) is true if and only if an entry stands at the target
\* path and that entry is a symbolic link, whatever the kind of entry: nothing,
\* a regular file, a directory, a symlink to an existing file, a symlink to a
\* missing file.
C14_ExistsIffSymlink ==
    [][last'.op = "exists" =>
        (last'.found <=> symlink_metadata(home, dotdir, path(last'.dotfile)).k = "link")]_vars

\* exists has answered false for a symlink whose target is missing
C14_Witness ==
    /\ last.op = "exists"
    /\ last.was.k = "link"
    /\ ~TargetExists(dotdir, last.was.to)
    /\ ~last.found

(***************************************************************************)
(* C15: grab by a user who has grabbed nothing                             *)
(***************************************************************************)
\* a file that counts as a dotfile among the files of a tree: no component
\* .git, not named .gitignore or .git, and no directory strictly between it
\* and the root that holds a .git entry
Listed(files, f) ==
    /\ \A i \in DOMAIN f : f[i] # ".git"
    /\ file_name(f) \notin {".gitignore", ".git"}
    /\ \A n \in 1..(Len(f) - 1) :
          ~\E g \in files : IsPrefix(Append(SubSeq(f, 1, n), ".git"), g)

\* the relative paths of the dotfiles of one revision of a source
SourceDotfiles(src, v) ==
    {f \in Range(RemoteTree[src][v]) : Listed(Range(RemoteTree[src][v]), f)}

relative_paths(ds) == {d.relative_path : d \in ds}

C16_SetupGrabsThenLinks ==
    [][last'.op = "setup" =>
        LET u == last'.user
        IN  /\ last'.res = OK =>
                  /\ is_grabbed(manifest'[u])
                  /\ dotdir'[u].src = manifest'[u]
                  /\ \A d \in Eligible(dotdir', u) : \A p \in link_paths(d) :
                        \/ symlink_metadata(home, dotdir', p).k \in {"file", "dir"}
                        \/ home'[p] = Link(d.full_path)
            /\ (last'.res # OK /\ last'.res[1] = "failed to grab dotfiles") =>
                  home' = home]_vars

\* setup has succeeded and an eligible dotfile has no link: a symlink of the
\* user stands at its link path
C16_Witness ==
    /\ last.op = "setup"
    /\ last.res = OK
    /\ \E d \in Eligible(dotdir, last.user) : \E p \in link_paths(d) :
          home[p].k = "link" /\ ~IntoCache(home[p], last.user)

(***************************************************************************)
(* C17: forget                                                             *)
(***************************************************************************)
\* C17: a forget that succeeds leaves every user ungrabbed: no symlink into
\* the user's dotfiles remains in the home directory, the links made under
\* feature-substituted names included, and the user's manifest and dotfiles
\* directory no longer exist.
C17_ForgetLeavesNothing ==
    [][(last'.op = "forget" /\ last'.res = OK)
       => \A u \in AllUsers :
             /\ ~is_grabbed(manifest'[u])
             /\ dotdir'[u] = NoDir
             /\ \A p \in HomePaths : ~IntoCache(home'[p], u)]_vars

\* forget has succeeded and a link into the removed cache is left at a
\* feature-substituted name
C17_Witness ==
    /\ last.op = "forget"
    /\ last.res = OK
    /\ \A u \in AllUsers : ~is_grabbed(manifest[u]) /\ dotdir[u] = NoDir
    /\ home[<<".tmux.os.conf">>] = Link(CacheFile("jenny", <<".tmux.linux.conf">>))

(***************************************************************************)
(* C18: update by a user who has grabbed nothing                           *)
(***************************************************************************)
\* C18: update for a user without a manifest ends the program with the fatal
\* usage error, before the backend is opened, and changes neither the cache
\* nor the home directory; the backend is gone to only for a grabbed user.
C18_UpdateNeedsGrab ==
    [][last'.op = "update" =>
        LET u == last'.user
        IN  /\ ~is_grabbed(manifest[u]) =>
                  /\ last'.res = Fatal
                  /\ <<home', manifest', dotdir', backups'>> = <<home, manifest, dotdir, backups>>
            /\ (last'.res \in {OK, <<"could not open", "git">>, <<"fetch", "git">>}
                \/ dotdir' # dotdir) => is_grabbed(manifest[u])]_vars

C18_Witness ==
    /\ last.op = "update"
    /\ ~last.grabbed
    /\ last.res = Fatal
    /\ ~is_grabbed(manifest[last.user])
    /\ dotdir[last.user] = NoDir

(***************************************************************************)
(* C19: link and unlink by a user who has grabbed nothing                  *)
(***************************************************************************)
\* C19: when the dotfiles root does not exist dotfiles() is the empty list,
\* and link and unlink return Ok and leave the home directory as it was.
C19_NothingToLink ==
    [][(/\ last'.op \in {"link", "unlink"}
        /\ dotdir[last'.user].kind = "absent")
       => (/\ dotfiles(dotdir, last'.user) = {}
           /\ last'.res = OK
           /\ home' = home)]_vars

\* link or unlink has run for a user without manifest and dotfiles in a home
\* directory that holds entries of the user
C19_Witness ==
    /\ last.op \in {"link", "unlink"}
    /\ last.res = OK
    /\ ~is_grabbed(manifest[last.user])
    /\ dotdir[last.user] = NoDir
    /\ \E p \in HomePaths : home[p].k = "link"

(***************************************************************************)
(* C20: what dotfiles() lists                                              *)
(***************************************************************************)
\* C20: dotfiles() returns exactly the regular files under the dotfiles root
\* that have no path component .git, are not named .gitignore or .git, and
\* have no directory strictly between them and the root that holds a .git
\* entry, each with its path relative to the root; so .git/config,
\* vendor/.git/sub.conf and .gitignore are never returned, nor is a file of a
\* directory that holds a nested .git, and .vimrc is returned although the
\* root itself holds .git.
C20_DotfilesFilter ==
    \A u \in AllUsers :
        dotdir[u].kind = "dir" =>
            LET files == dotdir[u].files
                got == dotfiles(dotdir, u)
            IN  /\ relative_paths(got) = {f \in files : Listed(files, f)}
                /\ \A d \in got : d.full_path = CacheFile(u, d.relative_path)
                /\ relative_paths(got) \cap
                      {<<".git", "config">>, <<"vendor", ".git", "sub.conf">>,
                       <<".gitignore">>, <<"vendor", ".git">>} = {}
                /\ tree_exists(files, <<"vendor", ".git">>) =>
                      <<"vendor", "sub.conf">> \notin relative_paths(got)
                /\ <<".vimrc">> \in files => <<".vimrc">> \in relative_paths(got)

\* dotfiles() has returned .vimrc, and only it and plain/y, from a root that
\* holds .git, .gitignore and a vendor directory with a nested .git directory
C20_Witness ==
    /\ last.op = "dotfiles"
    /\ last.dotfile = Dotfile(last.user, <<".vimrc">>)
    /\ dotdir[last.user].files =
          {<<".vimrc">>, <<".gitignore">>, <<".git", "config">>,
           <<"vendor", ".git", "sub.conf">>, <<"vendor", "sub.conf">>,
           <<"vendor", "deep", "x">>, <<"plain", "y">>, <<"plain", ".gitignore">>}
    /\ relative_paths(dotfiles(dotdir, last.user)) = {<<".vimrc">>, <<"plain", "y">>}

(***************************************************************************)
(* C21: the relative path of a dotfile                                     *)
(***************************************************************************)
\* a relative path that names something below the directory it is joined to:
\* not empty, and no component that is empty, ".", ".." or holds a separator
Inside(p) ==
    /\ p # <<>>
    /\ \A i \in DOMAIN p :
          /\ p[i] \notin {"", ".", ".."}
          /\ "/" \notin Range(Chars[p[i]])

\* C21: every Dotfile of dotfiles() has a relative path that is not empty and
\* has no ".." component, and its full path is the dotfiles root joined with
\* the relative path; after substitute_enabled_feature_names the relative path
\* is still not empty and inside the subtree (same directories, full path
\* untouched), so the link path of symlink::path lies under the home directory.
C21_RelativePathInside ==
    \A u \in AllUsers : \A d \in dotfiles(dotdir, u) :
        /\ Inside(d.relative_path)
        /\ d.full_path = CacheFile(u, d.relative_path)
        /\ \A order \in FeatureOrders(current_system) :
              LET s == substitute_enabled_feature_names(order, d)
              IN  /\ Inside(s.relative_path)
                  /\ parent(s.relative_path) = parent(d.relative_path)
                  /\ s.full_path = d.full_path
                  /\ Inside(path(s))

\* link has made a link under a substituted name
C21_Witness ==
    /\ last.op = "link"
    /\ last.res = OK
    /\ \E d \in dotfiles(dotdir, last.user) : \E order \in FeatureOrders(current_system) :
          LET s == substitute_enabled_feature_names(order, d)
          IN  /\ s.relative_path # d.relative_path
              /\ home[path(s)] = Link(d.full_path)

(***************************************************************************)
(* C22, C23: supports and required_features                                *)
(***************************************************************************)
\* token stands in name as a whole component between dots (or the ends)
Component(name, token) ==
    LET cs == Chars[name]
        t == Chars[token]
    IN  \E i \in 1..Len(cs) :
           /\ i + Len(t) - 1 <= Len(cs)
           /\ SubSeq(cs, i, i + Len(t) - 1) = t
           /\ i = 1 \/ cs[i - 1] = "."
           /\ i + Len(t) - 1 = Len(cs) \/ cs[i + Len(t)] = "."

\* C22: supports(D) is true exactly when every feature that D requires is
\* enabled; with {linux, unix, x86} enabled .tmux.linux.x86.conf is supported
\* and .tmux.windows.conf is not, and a file without feature components is
\* supported by every feature set.
C22_SupportsIffSubset ==
    [][last'.op = "supports" =>
        LET enabled == last'.set.enabled_features
            name == file_name(last'.dotfile.relative_path)
            needed == {t \in ALL_FEATURES : Component(name, t)}
        IN  /\ last'.found <=> needed \subseteq enabled
            /\ last'.found <=> required_features(last'.dotfile) \subseteq enabled
            /\ (enabled = {"linux", "unix", "x86"} /\ name = ".tmux.linux.x86.conf")
                  => last'.found
            /\ (enabled = {"linux", "unix", "x86"} /\ name = ".tmux.windows.conf")
                  => ~last'.found
            /\ name \in {"foo.bar", ".vimrc", ".linuxrc"} => last'.found]_vars

C22_Witness ==
    /\ last.op = "supports"
    /\ last.set.enabled_features = {"linux", "unix", "x86"}
    /\ file_name(last.dotfile.relative_path) = ".tmux.linux.x86.conf"
    /\ last.found

\* C23: required_features is exactly the set of the components between dots
\* of the file name (the last component of the path, never a directory) that
\* equal a known token; a component that only contains a token, and a directory
\* named like a token, require nothing.
C23_RequiredAreNameComponents ==
    [][last'.op = "required_features" =>
        LET name == file_name(last'.dotfile.relative_path)
        IN  last'.required = {t \in ALL_FEATURES : Component(name, t)}]_vars

\* x86_64 alone is required of linux/.tmux.x86_64.conf
C23_Witness ==
    /\ last.op = "required_features"
    /\ last.dotfile.relative_path = <<"linux", ".tmux.x86_64.conf">>
    /\ last.required = {"x86_64"}

(***************************************************************************)
(* C24: substitute_enabled_feature_names                                   *)
(***************************************************************************)
\* the components joined again with dots
RECURSIVE JoinDot(_)
JoinDot(parts) ==
    IF Len(parts) = 1 THEN parts[1]
    ELSE parts[1] \o <<".">> \o JoinDot(Tail(parts))

\* the characters of name with each component that equals an enabled token
\* rewritten to the name of the token's namespace
Rewritten(name, enabled) ==
    LET parts == SplitDot(Chars[name], <<>>)
    IN  JoinDot([i \in DOMAIN parts |->
                    IF \E t \in enabled : Chars[t] = parts[i]
                    THEN Chars[feature_name(CHOOSE t \in enabled : Chars[t] = parts[i])]
                    ELSE parts[i]])

\* C24: the substitution rewrites exactly the components of the file name
\* that equal an enabled token to the name of the token's namespace and leaves
\* every other character of the file name and every directory as it was;
\* with {linux, unix, x86}: foo.bar stays, .tmux.linux.conf becomes
\* .tmux.os.conf, .tmux.linux.x86.conf becomes .tmux.os.arch.conf and
\* .tmux.linux.unix.x86.conf becomes .tmux.os.family.arch.conf.
C24_SubstituteComponents ==
    [][last'.op = "substitute" =>
        LET enabled == last'.set.enabled_features
            old == last'.before.relative_path
            now == last'.dotfile.relative_path
        IN  /\ parent(now) = parent(old)
            /\ Chars[file_name(now)] = Rewritten(file_name(old), enabled)
            /\ last'.dotfile.full_path = last'.before.full_path]_vars

\* with linux enabled, .linuxrc has become .osrc
C24_Witness ==
    /\ last.op = "substitute"
    /\ "linux" \in last.set.enabled_features
    /\ file_name(last.before.relative_path) = ".linuxrc"
    /\ file_name(last.dotfile.relative_path) = ".osrc"

(***************************************************************************)
(* C25: substituting twice                                                 *)
(***************************************************************************)
\* C25: for every feature set and every file name, the substitution applied
\* to its own result changes nothing.
C25_SubstituteIdempotent ==
    [][(last.op = "substitute" /\ last'.op = "substitute")
       => last'.dotfile = last.dotfile]_vars

\* on macos, the second substitution has turned .macos, the result of the
\* first on .macmacos, into .os
C25_Witness ==
    /\ last.op = "substitute"
    /\ "macos" \in last.set.enabled_features
    /\ file_name(last.before.relative_path) = ".macos"
    /\ file_name(last.dotfile.relative_path) = ".os"

(***************************************************************************)
(* C26: the namespaces and the order of the substitution                   *)
(***************************************************************************)
\* C26: the OS, family and architecture token sets are pairwise disjoint, and
\* the substitution gives the same result for every order in which the
\* enabled tokens are processed, each enabled token that is a component of
\* the file name being rewritten to the name of the namespace it belongs to.
C26_OrderIndependent ==
    [][last'.op = "substitute" =>
        LET enabled == last'.set.enabled_features
        IN  /\ OS_NAMES \cap FAMILIES = {}
            /\ OS_NAMES \cap ARCH_NAMES = {}
            /\ FAMILIES \cap ARCH_NAMES = {}
            /\ \A order \in FeatureOrders(enabled) :
                  substitute_enabled_feature_names(order, last'.before) = last'.dotfile
            /\ \A t \in enabled :
                  /\ t \in OS_NAMES => feature_name(t) = "os"
                  /\ t \in FAMILIES => feature_name(t) = "family"
                  /\ t \in ARCH_NAMES => feature_name(t) = "arch"]_vars

\* with x86 and x86_64 enabled, .tmux.x86_64.conf has become
\* .tmux.arch_64.conf: x86 was processed first
C26_Witness ==
    /\ last.op = "substitute"
    /\ last.set.enabled_features = {"x86", "x86_64"}
    /\ file_name(last.before.relative_path) = ".tmux.x86_64.conf"
    /\ file_name(last.dotfile.relative_path) = ".tmux.arch_64.conf"

C28_NewValidates ==
    [][/\ last'.op = "new" =>
            IF last'.tokens \subseteq OS_NAMES \cup FAMILIES \cup ARCH_NAMES
            THEN last'.set = [enabled_features |-> last'.tokens]
            ELSE last'.set = Panic
       /\ (last'.op # "start" /\ last'.set # Panic) =>
            last'.set.enabled_features \subseteq OS_NAMES \cup FAMILIES \cup ARCH_NAMES]_vars

\* new has panicked on a token that is no feature
C28_Witness ==
    /\ last.op = "new"
    /\ "riscv64" \in last.tokens
    /\ last.set = Panic

(***************************************************************************)
(* C29: backup::path of a path that does not exist                         *)
(***************************************************************************)
\* C29: when nothing stands at the path, backup::path moves nothing aside,
\* calls f once and returns what f returned, Ok or error, with what f wrote
\* left at the path.
C29_NothingToBackUp ==
    (bk.phase = "done" /\ bk.before.kind = "absent")
    => /\ bk.called = 1
       /\ bk.res = bk.fres
       /\ bk.temp.kind = "absent"
       /\ bk.restore = "none"
       /\ bk.path = bk.written

\* f has failed at a path that held nothing, and its error has come back
C29_Witness ==
    /\ bk.phase = "done"
    /\ bk.before.kind = "absent"
    /\ bk.called = 1
    /\ bk.fres = <<"f failed">>
    /\ bk.res = <<"f failed">>
    /\ bk.left = 0

(***************************************************************************)
(* C30: backup::path of a path that exists, f succeeding                   *)
(***************************************************************************)
\* C30: when something stands at the path and f succeeds, backup::path
\* returns the Ok of f, what f wrote stands at the path, and the original
\* stays at the temporary location, neither deleted nor moved back; the
\* temporary location is a sibling of the path, and for a dotfiles directory
\* it is not below the dotfiles root, so dotfiles() never returns it.
C30_SuccessKeepsBackup ==
    /\ (bk.phase = "done" /\ bk.before.kind # "absent" /\ bk.called = 1 /\ bk.fres = OK)
       => /\ bk.res = OK
          /\ bk.path = bk.written
          /\ bk.temp = bk.before
          /\ bk.restore = "none"
    /\ \A u \in AllUsers : \A token \in Tokens :
          LET t == temp_path(dotfiles_path(u), token)
          IN  /\ parent(t) = parent(dotfiles_path(u))
              /\ t # dotfiles_path(u)
              /\ ~IsPrefix(dotfiles_path(u), t)

\* f has succeeded where a clone stood, and the clone is at the temporary
\* location
C30_Witness ==
    /\ bk.phase = "done"
    /\ bk.before = Clone("dots", 1)
    /\ bk.called = 1
    /\ bk.fres = OK
    /\ bk.res = OK
    /\ bk.temp = Clone("dots", 1)
    /\ bk.path = bk.written

(***************************************************************************)
(* C31: backup::path when the move aside fails                             *)
(***************************************************************************)
\* C31: when the move of the path to the temporary location fails,
\* backup::path returns that error, f is never called, and the path holds
\* what it held before; and f is left uncalled in no other case.
C31_MoveAsideFails ==
    bk.phase = "done" =>
        /\ bk.res = <<"failed to move file to temporary path", "io">> =>
              /\ bk.called = 0
              /\ bk.path = bk.before
              /\ bk.temp.kind = "absent"
              /\ bk.restore = "none"
        /\ bk.called = 0 =>
              /\ bk.before.kind # "absent"
              /\ bk.res = <<"failed to move file to temporary path", "io">>

\* the move aside of a clone has failed
C31_Witness ==
    /\ bk.phase = "done"
    /\ bk.called = 0
    /\ bk.res = <<"failed to move file to temporary path", "io">>
    /\ bk.before = Clone("dots", 1)
    /\ bk.path = Clone("dots", 1)

(***************************************************************************)
(* C32: a grab that fails                                                  *)
(***************************************************************************)
\* C32: a grab that fails leaves the manifest of the user as it was (a user
\* who had not grabbed has still not grabbed), and a dotfiles directory that
\* is left holding a clone holds the clone of the manifest's source.
C32_FailedGrabKeepsManifest ==
    [][(last'.op = "grab" /\ last'.res # OK)
       => LET u == last'.user
          IN  /\ manifest'[u] = manifest[u]
              /\ is_grabbed(manifest'[u]) = is_grabbed(manifest[u])
              /\ (is_grabbed(manifest'[u]) /\ dotdir'[u].src # "")
                 => dotdir'[u].src = manifest'[u]]_vars

\* a user who had not grabbed has a manifest after a grab that failed
C32_Witness ==
    /\ last.op = "grab"
    /\ last.res # OK
    /\ ~last.grabbed
    /\ is_grabbed(manifest[last.user])
    /\ dotdir[last.user].head = NoHead

(***************************************************************************)
(* C33: unlink at the end of any sequence of commands                      *)
(***************************************************************************)
\* C33: whatever commands ran before it, an unlink that succeeds leaves no
\* symlink into the dotfiles directory of the user in the home directory.
C33_UnlinkLeavesNoLink ==
    [][(last'.op = "unlink" /\ last'.res = OK)
       => \A p \in HomePaths : ~IntoCache(home'[p], last'.user)]_vars

\* unlink has succeeded and the link of a dotfile that a later grab no longer
\* fetched is still in the home directory, dangling
C33_Witness ==
    /\ last.op = "unlink"
    /\ last.res = OK
    /\ \E p \in HomePaths :
          /\ IntoCache(home[p], last.user)
          /\ home[p].to.p = p
          /\ home[p].to.p \notin dotdir[last.user].files
          /\ dotdir[last.user].kind = "dir"

(***************************************************************************)
(* C34: unlink and the symlinks that point elsewhere                       *)
(***************************************************************************)
\* C34: unlink removes no symlink but those into the dotfiles directory of
\* the user: a symlink of the home directory that points anywhere else is
\* there, unchanged, after unlink.
C34_UnlinkSparesOtherLinks ==
    [][last'.op = "unlink"
       => \A p \in HomePaths :
             (home[p].k = "link" /\ ~IntoCache(home[p], last'.user))
             => home'[p] = home[p]]_vars

(***************************************************************************)
(* C35: the link paths of one link pass                                    *)
(***************************************************************************)
\* C35: the dotfiles of one cache that the system supports have link paths
\* that differ from one another, whatever the order the enabled features
\* are substituted in.
C35_LinkPathsDistinct ==
    \A u \in AllUsers : \A order \in FeatureOrders(current_system) :
        \A d, e \in Eligible(dotdir, u) :
            d # e => path(Substituted[order][d]) # path(Substituted[order][e])

\* link has failed on an empty home directory: the link of .tmux.linux.conf
\* stands at ~/.tmux.os.conf, where the link of .tmux.os.conf was to go
C35_Witness ==
    /\ last.op = "link"
    /\ last.res # OK
    /\ {<<".tmux.linux.conf">>, <<".tmux.os.conf">>} \subseteq dotdir[last.user].files
    /\ home[<<".tmux.os.conf">>] = Link(CacheFile(last.user, <<".tmux.linux.conf">>))
    /\ \A p \in HomePaths \ {<<".tmux.os.conf">>} : home[p].k = "absent"

(***************************************************************************)
(* C36: forget in a cache that holds the dotfiles of two users             *)
(*                                                                         *)
(* Two user names of the one cache ~/.polk have each grabbed a repository  *)
(* (polk grab --user); the home directory, the one of the process, holds   *)
(* nothing yet.                                                            *)
(***************************************************************************)
InitForget ==
    /\ home = [p \in HomePaths |-> Absent]
    /\ manifest \in [AllUsers -> Repositories]
    /\ \E rev \in [AllUsers -> 1..2] :
          /\ \A u \in AllUsers : rev[u] \in Revisions(manifest[u])
          /\ dotdir = [u \in AllUsers |-> Clone(manifest[u], rev[u])]
    /\ backups = [u \in AllUsers |-> 0]
    /\ last = Ran("grab", "sam", NoDotfile, OK)
    /\ bk = BkIdle

NextForget ==
    \/ \E u \in AllUsers : LinkCmd(u)
    \/ \E u \in AllUsers : UnlinkCmd(u)
    \/ Forget

SpecForget == InitForget /\ [][NextForget]_vars

\* C36: forget leaves the manifest, the dotfiles directory and the symlinks
\* of every user but one, the user it is run for, as they were.
C36_ForgetSparesOtherUsers ==
    [][last'.op = "forget"
       => \E u \in AllUsers : \A w \in AllUsers \ {u} :
             /\ manifest'[w] = manifest[w]
             /\ dotdir'[w] = dotdir[w]
             /\ \A p \in HomePaths : IntoCache(home[p], w) => home'[p] = home[p]]_vars

\* forget has succeeded where two users had grabbed: neither has a manifest
\* or a dotfiles directory left
C36_Witness ==
    /\ last.op = "forget"
    /\ last.res = OK
    /\ \A u \in AllUsers : ~is_grabbed(manifest[u]) /\ dotdir[u].kind = "absent"
    /\ \A p \in HomePaths : ~IntoCache(home[p], "sam")

====
